---- MODULE Spec2Model ----
(***************************************************************************)
(* Model of the PQMF filterbank of TTS/tts/layers/vits/discriminator.py:  *)
(* construction of the banks H, G and of the up/down matrix, and the      *)
(* analysis / forward / synthesis calls made on one instance.  Spec has   *)
(* one caller and takes the constructor arguments and the inputs from the *)
(* wide ranges; SpecPar has NThreads callers interleaving their steps on  *)
(* a properly constructed instance, with inputs from the narrow ranges.   *)
(*                                                                         *)
(* Tensors are functions over 0-based index ranges.  The batch dimension  *)
(* is dropped: every batch element is processed independently.            *)
(* Real numbers are kept exact and symbolic:                              *)
(*   - a filter coefficient 2*QMF[n]*cos(a*pi/(4N)) is the pair <<n, a>>, *)
(*     a being the cosine argument counted in units of pi/(4N);           *)
(*   - an output sample of a convolution with H or G is its sum of        *)
(*     products, kept as the function from the (channel, tap) pair to the *)
(*     pair <<coefficient, input sample>>.                                *)
(* cutoff is counted in hundredths and beta in tenths.                    *)
(***************************************************************************)
EXTENDS Integers, FiniteSets, Sequences, TLC

VARIABLES N, taps, cutoff, beta,      \* constructor arguments, self.N .. self.beta
          H, G, updown_filter,        \* the registered buffers
          registered,                 \* names of the buffers registered so far
          ctor,                       \* "init", "ok" (constructed), "error" (raised)
          pc, op, x, y, res,          \* per caller: position, method, input,
                                      \* synthesis intermediate, returned tensor
          shapes                      \* the <<channels, length>> the inputs have

vars == <<N, taps, cutoff, beta, H, G, updown_filter, registered, ctor,
          pc, op, x, y, res, shapes>>

(* ------------------------------ bounds -------------------------------- *)
MaxN == 3
MaxTaps == 3
MaxLen == 4
MaxCh == 3
ParMaxN == 2
ParMaxTaps == 1
ParMaxLen == 1
ParMaxCh == 2
NThreads == 2

Threads == DOMAIN pc
NVals == (-1)..MaxN
TapsVals == (-1)..MaxTaps
CutoffVals == {15, 150}
BetaVals == {-10, 90}
Buffers == {"H", "G", "updown_filter"}

(* ------------------------------ tensors ------------------------------- *)
Dim(f) == Cardinality(DOMAIN f)

Empty == <<>>

\* an input of c channels and l samples; the samples are pairwise distinct
\* and nonzero, so that every output position identifies its source
Ramp(c, l) == [ch \in 0..(c - 1) |-> [i \in 0..(l - 1) |-> 1 + i + ch * l]]

RECURSIVE SumTo(_, _)
SumTo(f, n) == IF n = 0 THEN 0 ELSE f[n - 1] + SumTo(f, n - 1)

\* sample i of a channel after zero padding of p samples on both sides
PadAt(xc, i, p) == IF (i - p) \in DOMAIN xc THEN xc[i - p] ELSE 0

(* --------------------- torch.nn.functional.conv1d --------------------- *)
\* number of positions of a window of k samples moved by stride over lp samples
ConvOutLen(lp, k, stride) == Cardinality({j \in 0..lp : j * stride + k <= lp})

Conv1dFails(inp, w, padding, stride) ==
    \/ stride < 1
    \/ padding < 0
    \/ Dim(w) = 0
    \/ Dim(inp) = 0
    \/ Dim(w[0]) # Dim(inp)
    \/ Dim(w[0][0]) < 1
    \/ Dim(inp[0]) + 2 * padding < Dim(w[0][0])

Conv1dOut(inp, w, padding, stride) ==
    LET k == Dim(w[0][0])
        lout == ConvOutLen(Dim(inp[0]) + 2 * padding, k, stride)
    IN [o \in 0..(Dim(w) - 1) |->
          [j \in 0..(lout - 1) |->
             [ct \in (0..(Dim(inp) - 1)) \X (0..(k - 1)) |->
                 <<w[o][ct[1]][ct[2]],
                   PadAt(inp[ct[1]], j * stride + ct[2], padding)>>]]]

Conv1d(inp, w, padding, stride) ==
    IF Conv1dFails(inp, w, padding, stride)
    THEN [ok |-> FALSE, out |-> Empty]
    ELSE [ok |-> TRUE, out |-> Conv1dOut(inp, w, padding, stride)]

(* ----------------- torch.nn.functional.conv_transpose1d --------------- *)
ConvTranspose1dFails(inp, w, stride) ==
    \/ stride < 1
    \/ Dim(w) = 0
    \/ Dim(inp) = 0
    \/ Dim(w) # Dim(inp)
    \/ Dim(inp[0]) < 1

\* every input sample inp[c][i] is added, times w[c][o][t], to out[o][i*stride+t]
ConvTranspose1dOut(inp, w, stride) ==
    LET l == Dim(inp[0])
        k == Dim(w[0][0])
        lout == (l - 1) * stride + k
        contrib(o, j) == [idx \in 0..(Dim(inp) * l - 1) |->
                            LET c == idx \div l
                                i == idx % l
                                t == j - i * stride
                            IN IF t \in 0..(k - 1)
                               THEN inp[c][i] * w[c][o][t] ELSE 0]
    IN [o \in 0..(Dim(w[0]) - 1) |->
          [j \in 0..(lout - 1) |-> SumTo(contrib(o, j), Dim(inp) * l)]]

ConvTranspose1d(inp, w, stride) ==
    IF ConvTranspose1dFails(inp, w, stride)
    THEN [ok |-> FALSE, out |-> Empty]
    ELSE [ok |-> TRUE, out |-> ConvTranspose1dOut(inp, w, stride)]

\* tensor * scalar: a new tensor, the operand is left alone
Scale(w, s) == [a \in DOMAIN w |-> [b \in DOMAIN w[a] |->
                   [c \in DOMAIN w[a][b] |-> w[a][b][c] * s]]]

(* ---------------------------- PQMF.__init__ --------------------------- *)
\* sig.firwin(numtaps, cutoff, window=("kaiser", beta)): the outcomes.
\* firwin raises for a cutoff outside (0, 1) and for a negative numtaps; it
\* takes any beta.  For numtaps = 0 the outcome depends on the scipy release
\* (an empty filter, or an error), so both are allowed.
FirwinOutcomes(numtaps, cut) ==
    IF cut <= 0 \/ cut >= 100 THEN {"error"}
    ELSE IF numtaps < 0 THEN {"error"}
    ELSE IF numtaps = 0 THEN {"error", "ok"}
    ELSE {"ok"}

Sign(k) == IF k % 2 = 0 THEN 1 ELSE -1

CenterTwiceTaps(tp) == tp

\* twice the centering term (taps - 1) / 2
CenterTwice(tp) == tp - 1

\* (2k+1) * (pi/(2N)) * (n - (taps-1)/2), in units of pi/(4N)
ConstantFactor(k, n, tp) == (2 * k + 1) * (2 * n - CenterTwice(tp))

\* (-1)**k * pi/4, in units of pi/(4N)
Phase(k, nb) == Sign(k) * nb

\* H[k] = 2 * QMF * cos(constant_factor + phase), as H[:, None, :]
BuildH(nb, tp) ==
    [k \in 0..(nb - 1) |-> [c \in {0} |->
        [n \in 0..tp |-> <<n, ConstantFactor(k, n, tp) + Phase(k, nb)>>]]]

\* G[k] = 2 * QMF * cos(constant_factor - phase), as G[None, :, :]
BuildG(nb, tp) ==
    [c \in {0} |-> [k \in 0..(nb - 1) |->
        [n \in 0..tp |-> <<n, ConstantFactor(k, n, tp) - Phase(k, nb)>>]]]

BuildUpdownPhase(nb) ==
    [a \in 0..(nb - 1) |-> [b \in 0..(nb - 1) |-> [t \in 0..(nb - 1) |->
        IF a = b /\ t = a THEN 1 ELSE 0]]]

\* zeros((N, N, N)) with updown_filter[k, k, 0] = 1.0
BuildUpdown(nb) ==
    [a \in 0..(nb - 1) |-> [b \in 0..(nb - 1) |-> [t \in 0..(nb - 1) |->
        IF a = b /\ t = 0 THEN 1 ELSE 0]]]

\* __init__ checks no argument itself: it raises only where firwin raises
\* or where np.zeros((N, ...)) raises (N < 0), both before any buffer is
\* registered; with N = 0 the loop over range(N) is empty and it registers
\* empty buffers.
Construct ==
    /\ ctor = "init"
    /\ \E fw \in FirwinOutcomes(taps + 1, cutoff) :
         IF fw = "error" \/ N < 0
         THEN /\ ctor' = "error"
              /\ UNCHANGED <<H, G, updown_filter, registered>>
         ELSE /\ ctor' = "ok"
              /\ H' = BuildH(N, taps)
              /\ G' = BuildG(N, taps)
              /\ updown_filter' = BuildUpdown(N)
              /\ registered' = Buffers
    /\ UNCHANGED <<N, taps, cutoff, beta, pc, op, x, y, res, shapes>>

(* ------------------------ analysis and forward ------------------------ *)
AnalysisPaddingUp(tp) == (tp + 1) \div 2

\* padding=self.taps // 2
AnalysisPadding(tp) == tp \div 2

AnalysisStrideOne(nb) == 1

\* stride=self.N
AnalysisStride(nb) == nb

AnalysisFirstBandIn(inp) == [c \in {0} |-> inp[0]]

\* the tensor handed to F.conv1d by analysis
AnalysisInput(inp) == inp

RunAnalysis(t, name) ==
    /\ ctor = "ok"
    /\ pc[t] = "idle"
    /\ \E s \in shapes :
         LET c == s[1]
             l == s[2]
             r == Conv1d(AnalysisInput(Ramp(c, l)), H,
                         AnalysisPadding(taps), AnalysisStride(N))
         IN /\ x' = [x EXCEPT ![t] = Ramp(c, l)]
            /\ op' = [op EXCEPT ![t] = name]
            /\ res' = [res EXCEPT ![t] = r.out]
            /\ pc' = [pc EXCEPT ![t] = IF r.ok THEN "done" ELSE "error"]
    /\ UNCHANGED <<N, taps, cutoff, beta, H, G, updown_filter, registered,
                   ctor, y, shapes>>

Analysis(t) == RunAnalysis(t, "analysis")

Forward(t) == RunAnalysis(t, "forward")

(* ------------------------------ synthesis ----------------------------- *)
SynthesisUpInPlace(t) ==
    /\ ctor = "ok"
    /\ pc[t] = "idle"
    /\ \E s \in shapes :
         LET c == s[1]
             l == s[2]
             r == ConvTranspose1d(Ramp(c, l), Scale(updown_filter, N), N)
         IN /\ x' = [x EXCEPT ![t] = Ramp(c, l)]
            /\ op' = [op EXCEPT ![t] = "synthesis"]
            /\ y' = [y EXCEPT ![t] = r.out]
            /\ pc' = [pc EXCEPT ![t] = IF r.ok THEN "conv" ELSE "error"]
    /\ updown_filter' = Scale(updown_filter, N)
    /\ UNCHANGED <<N, taps, cutoff, beta, H, G, registered, ctor, res, shapes>>

\* x = F.conv_transpose1d(x, self.updown_filter * self.N, stride=self.N)
SynthesisUp(t) ==
    /\ ctor = "ok"
    /\ pc[t] = "idle"
    /\ \E s \in shapes :
         LET c == s[1]
             l == s[2]
             r == ConvTranspose1d(Ramp(c, l), Scale(updown_filter, N), N)
         IN /\ x' = [x EXCEPT ![t] = Ramp(c, l)]
            /\ op' = [op EXCEPT ![t] = "synthesis"]
            /\ y' = [y EXCEPT ![t] = r.out]
            /\ pc' = [pc EXCEPT ![t] = IF r.ok THEN "conv" ELSE "error"]
    /\ UNCHANGED <<N, taps, cutoff, beta, H, G, updown_filter, registered,
                   ctor, res, shapes>>

SynthesisPaddingNone(tp) == 0

\* padding=self.taps // 2
SynthesisPadding(tp) == tp \div 2

\* x = F.conv1d(x, self.G, padding=self.taps // 2); return x
SynthesisConv(t) ==
    /\ pc[t] = "conv"
    /\ LET r == Conv1d(y[t], G, SynthesisPadding(taps), 1)
       IN /\ res' = [res EXCEPT ![t] = r.out]
          /\ pc' = [pc EXCEPT ![t] = IF r.ok THEN "done" ELSE "error"]
    /\ UNCHANGED <<N, taps, cutoff, beta, H, G, updown_filter, registered,
                   ctor, op, x, y, shapes>>

\* the caller takes the returned tensor (or the raised error); the call's
\* locals are gone
Return(t) ==
    /\ pc[t] \in {"done", "error"}
    /\ pc' = [pc EXCEPT ![t] = "idle"]
    /\ op' = [op EXCEPT ![t] = "none"]
    /\ x' = [x EXCEPT ![t] = Empty]
    /\ y' = [y EXCEPT ![t] = Empty]
    /\ res' = [res EXCEPT ![t] = Empty]
    /\ UNCHANGED <<N, taps, cutoff, beta, H, G, updown_filter, registered,
                   ctor, shapes>>

(* --------------------------- specification ---------------------------- *)
\* nothing constructed, no call made, callers 1..nt
Fresh(nt) ==
    /\ H = Empty
    /\ G = Empty
    /\ updown_filter = Empty
    /\ registered = {}
    /\ ctor = "init"
    /\ pc = [t \in 1..nt |-> "idle"]
    /\ op = [t \in 1..nt |-> "none"]
    /\ x = [t \in 1..nt |-> Empty]
    /\ y = [t \in 1..nt |-> Empty]
    /\ res = [t \in 1..nt |-> Empty]

Init ==
    /\ N \in NVals
    /\ taps \in TapsVals
    /\ cutoff \in CutoffVals
    /\ beta \in BetaVals
    /\ shapes = (1..MaxCh) \X (1..MaxLen)
    /\ Fresh(1)

InitPar ==
    /\ N \in 1..ParMaxN
    /\ taps \in 0..ParMaxTaps
    /\ cutoff = 15
    /\ beta = 90
    /\ shapes = (1..ParMaxCh) \X (1..ParMaxLen)
    /\ Fresh(NThreads)

Next ==
    \/ Construct
    \/ \E t \in Threads : Analysis(t)
    \/ \E t \in Threads : Forward(t)
    \/ \E t \in Threads : SynthesisUp(t)
    \/ \E t \in Threads : SynthesisConv(t)
    \/ \E t \in Threads : Return(t)

Spec == Init /\ [][Next]_vars

SpecPar == InitPar /\ [][Next]_vars

TypeOK ==
    /\ ctor \in {"init", "ok", "error"}
    /\ registered \subseteq Buffers
    /\ \A t \in Threads : pc[t] \in {"idle", "conv", "done", "error"}
    /\ \A t \in Threads : op[t] \in {"none", "analysis", "forward", "synthesis"}

(* ----------------------------- properties ----------------------------- *)
IsAnalysis(t) == op[t] \in {"analysis", "forward"}

IsSynthesis(t) == op[t] = "synthesis"

\* the instance was built from arguments in the documented domain
ValidInstance == ctor = "ok" /\ N >= 1 /\ taps >= 0

InLen(t) == Dim(x[t][0])

\* C1, as stated: every returned analysis has N subbands, each of length
\* floor((L + 2*(taps//2) - taps) / N) + 1.
C1_Original ==
    \A t \in Threads :
        (ValidInstance /\ IsAnalysis(t) /\ pc[t] = "done") =>
            /\ Dim(res[t]) = N
            /\ \A k \in 0..(N - 1) :
                 Dim(res[t][k])
                    = ((InLen(t) + 2 * (taps \div 2) - taps) \div N) + 1

\* C1, amended: a single-channel analysis call returns exactly when the
\* padded input holds one whole kernel, L + 2*(taps//2) >= taps + 1, and it
\* then returns N subbands, each of length
\* floor((L + 2*(taps//2) - taps - 1) / N) + 1.
C1_SubbandShape ==
    \A t \in Threads :
        (ValidInstance /\ IsAnalysis(t) /\ Dim(x[t]) = 1) =>
            /\ (pc[t] = "done") = (InLen(t) + 2 * (taps \div 2) >= taps + 1)
            /\ pc[t] = "done" =>
                 /\ Dim(res[t]) = N
                 /\ \A k \in 0..(N - 1) :
                      Dim(res[t][k])
                         = ((InLen(t) + 2 * (taps \div 2) - taps - 1) \div N) + 1

C1_Witness ==
    \E t \in Threads :
        /\ ValidInstance /\ N >= 2 /\ taps >= 1
        /\ op[t] = "analysis" /\ pc[t] = "done"
        /\ InLen(t) >= 3 /\ Dim(res[t][0]) >= 2

\* C2, as stated: for even and odd taps alike the synthesis output has
\* length exactly N * L'.
C2_Original ==
    \A t \in Threads :
        (ValidInstance /\ IsSynthesis(t) /\ pc[t] = "done") =>
            Dim(res[t][0]) = N * InLen(t)

\* C2, amended: the transposed convolution always yields N * L' samples; the
\* returned waveform has one channel of N * L' samples when taps is even and
\* of N * L' - 1 samples when taps is odd.
C2_SynthesisLength ==
    \A t \in Threads :
        (ValidInstance /\ IsSynthesis(t)) =>
            /\ pc[t] = "conv" => \A k \in 0..(N - 1) : Dim(y[t][k]) = N * InLen(t)
            /\ pc[t] = "done" =>
                 /\ Dim(res[t]) = 1
                 /\ Dim(res[t][0]) = N * InLen(t) - (taps % 2)

C2_Witness ==
    \E t \in Threads :
        /\ ValidInstance /\ N >= 2 /\ taps = 2
        /\ IsSynthesis(t) /\ pc[t] = "done" /\ InLen(t) >= 2

InvalidArgs == N < 1 \/ taps < 0 \/ cutoff <= 0 \/ cutoff >= 100 \/ beta < 0

\* C3: construction with an invalid parameter (N < 1, taps < 0, cutoff
\* outside (0,1), beta < 0) ends in an error and registers no buffer.
C3_InvalidConstructionFails ==
    (InvalidArgs /\ ctor # "init") => (ctor = "error" /\ registered = {})

WrongChannels(t) ==
    \/ IsAnalysis(t) /\ Dim(x[t]) # 1
    \/ IsSynthesis(t) /\ Dim(x[t]) # N

\* C4: an analysis call on an input of other than 1 channel, and a synthesis
\* call on an input of other than N channels, ends in an error with no
\* output and no intermediate, and leaves H, G and the up/down matrix as
\* constructed.
C4_WrongChannelsFailAtomically ==
    \A t \in Threads :
        (pc[t] # "idle" /\ WrongChannels(t)) =>
            /\ pc[t] = "error"
            /\ res[t] = Empty
            /\ y[t] = Empty
            /\ H = BuildH(N, taps)
            /\ G = BuildG(N, taps)
            /\ updown_filter = BuildUpdown(N)

C4_Witness ==
    /\ ValidInstance /\ N >= 2
    /\ \E t, u \in Threads :
         /\ pc[t] = "error" /\ op[t] = "analysis" /\ Dim(x[t]) = 2
         /\ pc[u] = "error" /\ op[u] = "synthesis" /\ Dim(x[u]) = 1

\* C5: once constructed, the instance holds H of shape [N,1,taps+1], G of
\* shape [1,N,taps+1] and the N x N x N up/down matrix, and after any
\* calls they equal the values construction derived.
C5_BuffersNeverChange ==
    ctor = "ok" =>
        /\ registered = Buffers
        /\ H = BuildH(N, taps)
        /\ G = BuildG(N, taps)
        /\ updown_filter = BuildUpdown(N)
        /\ (N >= 1 /\ taps >= 0) =>
             /\ Dim(H) = N /\ Dim(H[0]) = 1 /\ Dim(H[0][0]) = taps + 1
             /\ Dim(G) = 1 /\ Dim(G[0]) = N /\ Dim(G[0][0]) = taps + 1
             /\ Dim(updown_filter) = N /\ Dim(updown_filter[0]) = N
             /\ Dim(updown_filter[0][0]) = N

C5_Witness ==
    /\ ValidInstance /\ N >= 2
    /\ \E t, u \in Threads :
         /\ pc[t] = "done" /\ op[t] = "synthesis"
         /\ pc[u] = "done" /\ IsAnalysis(u)

\* what a call returns when it runs alone on the instance as constructed
Alone(name, inp) ==
    IF name = "synthesis"
    THEN LET u == ConvTranspose1d(inp, Scale(BuildUpdown(N), N), N)
         IN IF u.ok THEN Conv1d(u.out, BuildG(N, taps), taps \div 2, 1)
            ELSE [ok |-> FALSE, out |-> Empty]
    ELSE Conv1d(inp, BuildH(N, taps), taps \div 2, N)

\* C6: under every interleaving of the threads' steps, a finished call has
\* returned (or raised) what the same call returns when run alone.
C6_CallsIndependent ==
    \A t \in Threads :
        pc[t] \in {"done", "error"} =>
            /\ (pc[t] = "done") = Alone(op[t], x[t]).ok
            /\ res[t] = Alone(op[t], x[t]).out

C6_Witness ==
    /\ ValidInstance /\ N >= 2
    /\ \E t, u \in Threads :
         /\ t # u
         /\ pc[t] = "done" /\ op[t] = "synthesis"
         /\ pc[u] = "conv"

\* C7, as stated: N times the subband length equals the input length L.
C7_Original ==
    \A t \in Threads :
        (ValidInstance /\ IsAnalysis(t) /\ pc[t] = "done") =>
            N * Dim(res[t][0]) = InLen(t)

\* C7, amended: N times the subband length equals L exactly when L is a
\* multiple of N and (taps is even or N >= 2); it never falls below L - 1.
C7_SampleCount ==
    \A t \in Threads :
        (ValidInstance /\ IsAnalysis(t) /\ pc[t] = "done") =>
            /\ (N * Dim(res[t][0]) = InLen(t))
                 = (InLen(t) % N = 0 /\ (taps % 2 = 0 \/ N >= 2))
            /\ N * Dim(res[t][0]) >= InLen(t) - 1

C7_Witness ==
    \E t \in Threads :
        /\ ValidInstance /\ N >= 2
        /\ IsAnalysis(t) /\ pc[t] = "done"
        /\ InLen(t) = 2 /\ N * Dim(res[t][0]) = InLen(t)

UpdownIsDiagonalAtZero ==
    /\ Dim(updown_filter) = N
    /\ \A a \in 0..(N - 1) :
         /\ Dim(updown_filter[a]) = N
         /\ \A b \in 0..(N - 1) :
              /\ Dim(updown_filter[a][b]) = N
              /\ \A c \in 0..(N - 1) :
                   updown_filter[a][b][c] = IF a = b /\ c = 0 THEN 1 ELSE 0

\* C9, as stated: step 1 of synthesis yields a single stream of N * L'
\* samples in which sample i of subband k sits at position i * N + k.
C9_Original ==
    \A t \in Threads :
        (ValidInstance /\ IsSynthesis(t) /\ pc[t] = "conv") =>
            /\ UpdownIsDiagonalAtZero
            /\ Dim(y[t]) = 1
            /\ Dim(y[t][0]) = N * InLen(t)
            /\ \A k \in 0..(N - 1) : \A i \in 0..(InLen(t) - 1) :
                 y[t][0][i * N + k] = N * x[t][k][i]

\* C9, amended: step 1 of synthesis yields N streams of N * L' samples each;
\* stream k holds N times sample i of subband k at position i * N and zero
\* at every other position.  The up/down matrix is N x N x N with 1 at
\* [k, k, 0] and 0 elsewhere.
C9_ZeroStuffedStreams ==
    \A t \in Threads :
        (ValidInstance /\ IsSynthesis(t) /\ pc[t] = "conv") =>
            /\ UpdownIsDiagonalAtZero
            /\ Dim(y[t]) = N
            /\ \A k \in 0..(N - 1) :
                 /\ Dim(y[t][k]) = N * InLen(t)
                 /\ \A j \in 0..(N * InLen(t) - 1) :
                      y[t][k][j] = IF j % N = 0 THEN N * x[t][k][j \div N]
                                   ELSE 0

C9_Witness ==
    \E t \in Threads :
        /\ ValidInstance /\ N >= 2
        /\ IsSynthesis(t) /\ pc[t] = "conv" /\ InLen(t) >= 2

====
